---- MODULE Spec2Model ----
(***************************************************************************)
(* Session store, wallet verification, role-update relay queue and expiry  *)
(* sweeper of the Deape backend (src/server.js, src/routes/dashboard.js).  *)
(*                                                                         *)
(* src/server.js holds several variants of the same endpoints; every       *)
(* handler that touches the two session maps or the relay queue is an      *)
(* action here, all of them over the same `sessions`, `discordSessions`    *)
(* and `pendingRoleUpdates` maps.  JavaScript objects are kept in a heap   *)
(* so that two map entries can hold the same instance and a suspended      *)
(* handler can hold an instance no map holds any more.                     *)
(***************************************************************************)
EXTENDS Integers, Sequences, FiniteSets, TLC

(* ------------------------------ bounds -------------------------------- *)
MaxRecords == 3
MaxWallets == 2
MaxInflight == 1
MaxDays == 1
MaxHours == 1
MaxVerifications == 2
MaxTurns == 3
MaxSweptVerifications == 1
MaxLinks == 2
MaxEnqueues == 3

(* --------------------------- program constants ------------------------ *)
HOUR == 60 * 60 * 1000
SESSION_TIMEOUT == 24 * 60 * 60 * 1000
FIVE_MINUTES == 5 * 60 * 1000

(* ------------------------------ input sets ---------------------------- *)
UNDEFINED == "undefined"
SessionIdOrder == <<"s1", "s2">>
SessionIds == {SessionIdOrder[i] : i \in DOMAIN SessionIdOrder}
DiscordIds == {"d1", "d2"}
Usernames == {"alice"}
Addresses ==
    { <<"0", "x", "A", "B", "C">>,
      <<"0", "x", "a", "b", "c">>,
      <<"0", "x", "d", "e", "f">> }
ChainResults ==
    { [nftBalance |-> 0, stakedTokens |-> <<>>, totalPoints |-> 0, tier |-> 0, isMinter |-> FALSE],
      [nftBalance |-> 2, stakedTokens |-> <<>>, totalPoints |-> 0, tier |-> 0, isMinter |-> FALSE],
      [nftBalance |-> 3, stakedTokens |-> <<7, 8>>, totalPoints |-> 40, tier |-> 1, isMinter |-> TRUE] }
RoleUpdateTotals == {0, 10}
MaxNow == MaxDays * SESSION_TIMEOUT + MaxHours * HOUR

Refs == 1 .. MaxRecords
Slots == 1 .. MaxInflight
(* The handlers that can be suspended at once when requests race: one more. *)
Handlers == 1 .. (MaxInflight + 1)
NoRef == 0

(* A JavaScript value that may be undefined: <<>> is undefined, <<v>> is v. *)
Undef == <<>>
Def(v) == <<v>>

(* ----------------------------- pure helpers --------------------------- *)
Truthy(s) == s # UNDEFINED

LowerChar(c) ==
    CASE c = "A" -> "a" [] c = "B" -> "b" [] c = "C" -> "c"
      [] c = "D" -> "d" [] c = "E" -> "e" [] c = "F" -> "f"
      [] OTHER -> c

toLowerCase(s) == [i \in DOMAIN s |-> LowerChar(s[i])]

(* username contains no percent escape in Usernames *)
decodeURIComponent(u) == u

Free == [kind |-> "free"]
NoEntry == [kind |-> "none"]
SessionEntry(ref) == [kind |-> "session", ref |-> ref]
(* The link record's timestamp field is read by no handler and is left out. *)
RelayEntry(userId, username) ==
    [kind |-> "relay", userId |-> userId, username |-> username]
Idle == [pc |-> "idle"]

VARIABLES now, heap, sessions, discordSessions, pendingRoleUpdates, requests, used, last,
          memberRoles, roleJob, otherJob

vars == <<now, heap, sessions, discordSessions, pendingRoleUpdates, requests, used, last,
          memberRoles, roleJob, otherJob>>

(* The Discord side: the guild members' roles, the running updateUserRoles   *)
(* and a second call of it that is suspended at one of its awaits            *)
discord == <<memberRoles, roleJob, otherJob>>

DiscordKeys == SessionIds \cup DiscordIds

(* The heap holds the objects some map entry or suspended handler refers to; *)
(* the others are collected.                                                 *)
Reachable(s, d, r) ==
    {s[k] : k \in SessionIds}
    \cup {d[k].ref : k \in {j \in DiscordKeys : d[j].kind = "session"}}
    \cup {r[i].session : i \in {j \in Handlers : r[j].pc # "idle"}}

Collect(h, s, d, r) ==
    [ref \in Refs |-> IF ref \in Reachable(s, d, r) THEN h[ref] ELSE Free]

(* The new values of the heap, the two session maps and the suspended handlers *)
Commit(h, s, d, r) ==
    /\ heap' = Collect(h, s, d, r)
    /\ sessions' = s
    /\ discordSessions' = d
    /\ requests' = r

FreeRefs == {ref \in Refs : heap[ref] = Free}
NewRef == CHOOSE ref \in FreeRefs : \A o \in FreeRefs : ref <= o

Init ==
    /\ now = 0
    /\ heap = [ref \in Refs |-> Free]
    /\ sessions = [k \in SessionIds |-> NoRef]
    /\ discordSessions = [k \in DiscordKeys |-> NoEntry]
    /\ pendingRoleUpdates = <<>>
    /\ requests = [i \in Handlers |-> Idle]
    /\ used = [verify |-> 0, link |-> 0, enqueue |-> 0]
    /\ last = [op |-> "init", status |-> 0]
    /\ memberRoles = [u \in DiscordIds |-> {}]
    /\ roleJob = Idle
    /\ otherJob = Idle

(* The clock: Date.now() advances between handlers, by an hour (the sweeper's *)
(* interval) or by a whole session timeout.                                  *)
Tick ==
    \E d \in {HOUR, SESSION_TIMEOUT} :
        /\ now + d <= MaxNow
        /\ d = HOUR => (now % SESSION_TIMEOUT) + HOUR <= MaxHours * HOUR
        /\ now' = now + d
        /\ last' = [op |-> "tick", status |-> 0]
        /\ UNCHANGED <<discord, heap, sessions, discordSessions, pendingRoleUpdates, requests, used>>

(* ------------------------------ session store -------------------------- *)
(* uuidv4(): an id no map, record or suspended handler holds. *)
FreshId(sid) ==
    /\ sessions[sid] = NoRef
    /\ discordSessions[sid] = NoEntry
    /\ \A ref \in Refs : heap[ref] # Free => heap[ref].id # sid
    /\ \A i \in Handlers : requests[i].pc # "idle" => requests[i].sessionId # sid

(* Variant: a generator that returns the same id every time. *)
uuidv4_Constant == SessionIdOrder[1]

(* The generated id is arbitrary among the unused ones: the first is taken. *)
uuidv4 ==
    LET fresh == {i \in DOMAIN SessionIdOrder : FreshId(SessionIdOrder[i])}
    IN SessionIdOrder[CHOOSE i \in fresh : \A o \in fresh : i <= o]

NewSession(sessionId, discordId, username, connected, t, activity) ==
    [kind |-> "session", id |-> sessionId, discordId |-> discordId, username |-> username,
     isDiscordConnected |-> connected, wallets |-> <<>>, createdAt |-> Def(t),
     lastActivity |-> activity]

(* POST /api/session *)
CreateSessionReq(discordId, username) ==
    /\ \E sid \in SessionIds : FreshId(sid)
    /\ FreeRefs # {}
    /\ LET sessionId == uuidv4
           session == NewSession(sessionId, discordId, username, FALSE, now, Def(now))
           h == [heap EXCEPT ![NewRef] = session]
           s == [sessions EXCEPT ![sessionId] = NewRef]
           d == IF Truthy(discordId)
                THEN [discordSessions EXCEPT ![discordId] = SessionEntry(NewRef)]
                ELSE discordSessions
       IN /\ Commit(h, s, d, requests)
          /\ last' = [op |-> "createSession", status |-> 200, sessionId |-> sessionId]
    /\ UNCHANGED <<discord, now, pendingRoleUpdates, used>>

CreateSession ==
    \E discordId \in DiscordIds \cup {UNDEFINED}, username \in Usernames :
        CreateSessionReq(discordId, username)

(* POST /api/session with any body: req.body may lack username *)
CreateSessionAnyBody ==
    \E discordId \in DiscordIds \cup {UNDEFINED}, username \in Usernames \cup {UNDEFINED} :
        CreateSessionReq(discordId, username)

(* POST /api/discord/webhook, the variant that stores a session in both maps *)
DiscordWebhookReq(sessionId, username, discordId) ==
    IF ~Truthy(sessionId) \/ ~Truthy(username) \/ ~Truthy(discordId)
    THEN /\ last' = [op |-> "discordWebhook", status |-> 400]
         /\ UNCHANGED <<discord, now, heap, sessions, discordSessions, pendingRoleUpdates, requests, used>>
    ELSE /\ FreeRefs # {}
         /\ used.link < MaxLinks
         /\ used' = [used EXCEPT !.link = @ + 1]
         /\ LET session == NewSession(sessionId, discordId, decodeURIComponent(username),
                                      TRUE, now, Def(now))
                h == [heap EXCEPT ![NewRef] = session]
                s == [sessions EXCEPT ![sessionId] = NewRef]
                d == [discordSessions EXCEPT ![discordId] = SessionEntry(NewRef)]
            IN Commit(h, s, d, requests)
         /\ last' = [op |-> "discordWebhook", status |-> 200]
         /\ UNCHANGED <<discord, now, pendingRoleUpdates>>

DiscordWebhook ==
    \E sessionId \in SessionIds \cup {UNDEFINED}, username \in Usernames \cup {UNDEFINED},
       discordId \in DiscordIds \cup {UNDEFINED} :
        DiscordWebhookReq(sessionId, username, discordId)

(* POST /api/discord/webhook, the relay variant: a link record keyed by session id *)
RelayWebhookReq(sessionId, username, discordId) ==
    /\ used.link < MaxLinks
    /\ used' = [used EXCEPT !.link = @ + 1]
    /\ LET d == [discordSessions EXCEPT ![sessionId] = RelayEntry(discordId, username)]
       IN Commit(heap, sessions, d, requests)
    /\ last' = [op |-> "relayWebhook", status |-> 200]
    /\ UNCHANGED <<discord, now, pendingRoleUpdates>>

RelayWebhook ==
    \E sessionId \in SessionIds, username \in Usernames, discordId \in DiscordIds \cup {UNDEFINED} :
        RelayWebhookReq(sessionId, username, discordId)

(* Variant: a session is expired as soon as its age reaches the timeout. *)
Expired_AtTimeout(session, t) ==
    /\ session.lastActivity # Undef
    /\ t - session.lastActivity[1] >= SESSION_TIMEOUT

(* now - session.lastActivity > SESSION_TIMEOUT; with lastActivity undefined the *)
(* difference is NaN and the comparison is false.                                *)
Expired(session, t) ==
    /\ session.lastActivity # Undef
    /\ t - session.lastActivity[1] > SESSION_TIMEOUT

(* cleanupSessions, run by setInterval *)
cleanupSessions ==
    /\ LET expired == {k \in SessionIds : sessions[k] # NoRef /\ Expired(heap[sessions[k]], now)}
           gone == {heap[sessions[k]].discordId : k \in expired} \ {UNDEFINED}
           s == [k \in SessionIds |-> IF k \in expired THEN NoRef ELSE sessions[k]]
           d == [k \in DiscordKeys |-> IF k \in gone THEN NoEntry ELSE discordSessions[k]]
       IN /\ Commit(heap, s, d, requests)
          /\ last' = [op |-> "cleanup", status |-> 0, removed |-> expired]
    /\ UNCHANGED <<discord, now, pendingRoleUpdates, used>>

(* --------------- wallet attachment, signed variant (strings) ----------- *)
(* ethers.utils.verifyMessage yields the signer's address or throws; signer *)
(* is that address, Undef when it throws.                                  *)
verifySignature(address, signer) ==
    /\ signer # Undef
    /\ address # Undef
    /\ toLowerCase(signer) = toLowerCase(address)

(* Array.prototype.includes on the wallets list: strict equality with a string *)
includes(wallets, address) ==
    \E i \in DOMAIN wallets : wallets[i] = [kind |-> "address", address |-> address]

updateSessionWithWallet(session, address, t) ==
    [session EXCEPT
        !.wallets = IF includes(@, address) THEN @
                    ELSE Append(@, [kind |-> "address", address |-> address]),
        !.lastActivity = Def(t)]

(* Date.now() - timestamp > FIVE_MINUTES, false when timestamp is undefined (NaN) *)
TooOld(timestamp, t) == timestamp # Undef /\ t - timestamp[1] > FIVE_MINUTES

(* POST /api/discord/:sessionId/wallets with address, signature, message, timestamp *)
SignedWalletReq(sessionId, address, signer, timestamp) ==
    IF TooOld(timestamp, now) \/ ~verifySignature(address, signer)
    THEN /\ last' = [op |-> "signedWallet", status |-> 400]
         /\ UNCHANGED <<discord, now, heap, sessions, discordSessions, pendingRoleUpdates, requests, used>>
    ELSE IF sessions[sessionId] = NoRef
    THEN /\ last' = [op |-> "signedWallet", status |-> 500]
         /\ UNCHANGED <<discord, now, heap, sessions, discordSessions, pendingRoleUpdates, requests, used>>
    ELSE /\ used.verify < MaxVerifications
         /\ used' = [used EXCEPT !.verify = @ + 1]
         /\ LET ref == sessions[sessionId]
                session == updateSessionWithWallet(heap[ref], address, now)
            IN /\ Len(session.wallets) <= MaxWallets
               /\ heap' = [heap EXCEPT ![ref] = session]
         /\ last' = [op |-> "signedWallet", status |-> 200]
         /\ UNCHANGED <<discord, now, sessions, discordSessions, pendingRoleUpdates, requests>>

SignedWallet ==
    \E sessionId \in SessionIds, address \in Addresses \cup {Undef},
       signer \in Addresses \cup {Undef},
       timestamp \in {Undef, Def(now), Def(now - FIVE_MINUTES - 1)} :
        SignedWalletReq(sessionId, address, signer, timestamp)

(* ------------------- wallet verification, relay variant ---------------- *)
(* discordSession.userId / .username of whatever discordSessions.get returned *)
LinkUserId(entry) == IF entry.kind = "relay" THEN entry.userId ELSE UNDEFINED
LinkUsername(entry) ==
    IF entry.kind = "relay" THEN entry.username
    ELSE IF entry.kind = "session" THEN heap[entry.ref].username ELSE UNDEFINED

(* Variant: totalNFTs counts the wallet's balance and leaves out the staked tokens. *)
WalletInfo_BalanceOnly(address, chain) ==
    [kind |-> "info", address |-> address, nftBalance |-> chain.nftBalance,
     stakedNFTs |-> chain.stakedTokens, totalPoints |-> chain.totalPoints,
     tier |-> chain.tier, isMinter |-> chain.isMinter,
     totalNFTs |-> chain.nftBalance]

WalletInfo(address, chain) ==
    [kind |-> "info", address |-> address, nftBalance |-> chain.nftBalance,
     stakedNFTs |-> chain.stakedTokens, totalPoints |-> chain.totalPoints,
     tier |-> chain.tier, isMinter |-> chain.isMinter,
     totalNFTs |-> chain.nftBalance + Len(chain.stakedTokens)]

(* w.address?.toLowerCase() === address.toLowerCase() *)
SameWallet(w, address) == toLowerCase(w.address) = toLowerCase(address)

(* Array.prototype.findIndex, 0 when nothing matches (JavaScript's -1) *)
findIndex(wallets, address) ==
    LET hits == {i \in DOMAIN wallets : SameWallet(wallets[i], address)}
    IN IF hits = {} THEN 0 ELSE CHOOSE i \in hits : \A j \in hits : i <= j

(* Variant: a replaced record keeps the balance fields it had. *)
upsertWallet_Merge(wallets, walletInfo) ==
    LET existingWalletIndex == findIndex(wallets, walletInfo.address)
    IN IF existingWalletIndex > 0
       THEN [wallets EXCEPT ![existingWalletIndex] =
                [walletInfo EXCEPT !.nftBalance = wallets[existingWalletIndex].nftBalance,
                                   !.stakedNFTs = wallets[existingWalletIndex].stakedNFTs]]
       ELSE Append(wallets, walletInfo)

(* Variant: a re-verified record is taken out and put at the end of the list. *)
upsertWallet_MoveToEnd(wallets, walletInfo) ==
    Append(SelectSeq(wallets, LAMBDA w : ~SameWallet(w, walletInfo.address)), walletInfo)

upsertWallet(wallets, walletInfo) ==
    LET existingWalletIndex == findIndex(wallets, walletInfo.address)
    IN IF existingWalletIndex > 0
       THEN [wallets EXCEPT ![existingWalletIndex] = walletInfo]
       ELSE Append(wallets, walletInfo)

(* JavaScript Map, kept as the sequence of its values in insertion order *)
MapHas(q, userId) == \E i \in DOMAIN q : q[i].userId = userId
(* Variant: a set that appends without looking for the key. *)
MapSet_Append(q, userId, entry) == Append(q, entry)

MapSet(q, userId, entry) ==
    IF MapHas(q, userId)
    THEN [i \in DOMAIN q |-> IF q[i].userId = userId THEN entry ELSE q[i]]
    ELSE Append(q, entry)
MapDelete(q, userId) == SelectSeq(q, LAMBDA e : e.userId # userId)
MapGet(q, userId) == q[CHOOSE i \in DOMAIN q : q[i].userId = userId]

PendingRoleUpdate(userId, totalNFTs, t) ==
    [userId |-> userId, totalNFTs |-> totalNFTs, timestamp |-> t]

Request(pc, sessionId, address, session, userId) ==
    [pc |-> pc, sessionId |-> sessionId, address |-> address, session |-> session,
     userId |-> userId]

(* POST /api/discord/:sessionId/wallets up to its first await (or early return); *)
(* budget caps the number of verifications of a behaviour.                       *)
VerifyWalletWithin(i, sessionId, address, budget) ==
    /\ requests[i].pc = "idle"
    /\ LET discordSession == discordSessions[sessionId]
       IN IF address = Undef
          THEN /\ last' = [op |-> "verifyWallet", status |-> 400]
               /\ UNCHANGED <<heap, sessions, discordSessions, requests, used>>
          ELSE IF discordSession.kind = "none"
          THEN /\ last' = [op |-> "verifyWallet", status |-> 404]
               /\ UNCHANGED <<heap, sessions, discordSessions, requests, used>>
          ELSE /\ used.verify < budget
               /\ used' = [used EXCEPT !.verify = @ + 1]
               /\ last' = [op |-> "verifyWallet", status |-> 0]
               /\ IF sessions[sessionId] # NoRef
                  THEN Commit(heap, sessions, discordSessions,
                              [requests EXCEPT ![i] =
                                  Request("chain", sessionId, address, sessions[sessionId],
                                          LinkUserId(discordSession))])
                  ELSE /\ FreeRefs # {}
                       /\ Commit([heap EXCEPT ![NewRef] =
                                     NewSession(sessionId, LinkUserId(discordSession),
                                                LinkUsername(discordSession), FALSE, now, Undef)],
                                 [sessions EXCEPT ![sessionId] = NewRef],
                                 discordSessions,
                                 [requests EXCEPT ![i] =
                                     Request("chain", sessionId, address, NewRef,
                                             LinkUserId(discordSession))])
    /\ UNCHANGED <<discord, now, pendingRoleUpdates>>

VerifyWalletReq(i, sessionId, address) ==
    VerifyWalletWithin(i, sessionId, address, MaxVerifications)

VerifyWalletStart ==
    \E i \in Slots, sessionId \in SessionIds, address \in Addresses \cup {Undef} :
        VerifyWalletReq(i, sessionId, address)

(* Promise.all resolved: the wallet is recorded and the role update is posted *)
ChainResolvedAt(i, chain) ==
    /\ requests[i].pc = "chain"
    /\ LET r == requests[i]
           walletInfo == WalletInfo(r.address, chain)
           wallets == upsertWallet(heap[r.session].wallets, walletInfo)
       IN /\ Len(wallets) <= MaxWallets
          /\ heap' = [heap EXCEPT ![r.session].wallets = wallets]
          /\ requests' = [requests EXCEPT ![i] =
                 [pc |-> "webhook", sessionId |-> r.sessionId, address |-> r.address,
                  session |-> r.session, userId |-> r.userId, walletInfo |-> walletInfo] ]
          /\ last' = [op |-> "walletRecorded", status |-> 0, slot |-> i]
    /\ UNCHANGED <<discord, now, sessions, discordSessions, pendingRoleUpdates, used>>

ChainResolved == \E i \in Slots, chain \in ChainResults : ChainResolvedAt(i, chain)

(* Promise.all rejected (RPC unreachable, revert, malformed address): the catch *)
ChainRejectedAt(i) ==
    /\ requests[i].pc = "chain"
    /\ Commit(heap, sessions, discordSessions, [requests EXCEPT ![i] = Idle])
    /\ last' = [op |-> "verifyWallet", status |-> 500]
    /\ UNCHANGED <<discord, now, pendingRoleUpdates, used>>

ChainRejected == \E i \in Slots : ChainRejectedAt(i)

(* ------------------------- role-update relay queue --------------------- *)
(* Variant: a pending entry is kept and the later request for its user is dropped. *)
enqueue_KeepFirst(q, userId, totalNFTs, t) ==
    IF MapHas(q, userId) THEN q ELSE Append(q, PendingRoleUpdate(userId, totalNFTs, t))

enqueue(q, userId, totalNFTs, t) == MapSet(q, userId, PendingRoleUpdate(userId, totalNFTs, t))

(* Variant: the test is !userId || !totalNFTs, which refuses a total of 0. *)
MissingFields_Falsy(userId, totalNFTs) ==
    ~Truthy(userId) \/ totalNFTs = Undef \/ totalNFTs = Def(0)

(* if (!userId || totalNFTs === undefined) *)
MissingFields(userId, totalNFTs) == ~Truthy(userId) \/ totalNFTs = Undef

(* POST /role-update *)
RoleUpdateReq(userId, totalNFTs) ==
    /\ IF MissingFields(userId, totalNFTs)
       THEN /\ last' = [op |-> "roleUpdate", status |-> 400]
            /\ UNCHANGED <<pendingRoleUpdates, used>>
       ELSE /\ used.enqueue < MaxEnqueues
            /\ used' = [used EXCEPT !.enqueue = @ + 1]
            /\ pendingRoleUpdates' = enqueue(pendingRoleUpdates, userId, totalNFTs[1], now)
            /\ last' = [op |-> "roleUpdate", status |-> 200]
    /\ UNCHANGED <<discord, now, heap, sessions, discordSessions, requests>>

RoleUpdate ==
    \E userId \in DiscordIds \cup {UNDEFINED},
       totalNFTs \in {Undef} \cup {Def(n) : n \in RoleUpdateTotals} :
        RoleUpdateReq(userId, totalNFTs)

(* axios.post(DISCORD_WEBHOOK_URL, ...) reaches POST /role-update *)
WebhookDeliveredAt(i) ==
    /\ requests[i].pc = "webhook"
    /\ LET r == requests[i]
           accepted == ~MissingFields(r.userId, Def(r.walletInfo.totalNFTs))
       IN /\ pendingRoleUpdates' =
                 IF accepted
                 THEN enqueue(pendingRoleUpdates, r.userId, r.walletInfo.totalNFTs, now)
                 ELSE pendingRoleUpdates
          /\ requests' = [requests EXCEPT ![i] =
                 [pc |-> "respond", sessionId |-> r.sessionId, address |-> r.address,
                  session |-> r.session, userId |-> r.userId, walletInfo |-> r.walletInfo,
                  webhookError |-> ~accepted] ]
          /\ last' = [op |-> "webhook", status |-> IF accepted THEN 200 ELSE 400, slot |-> i]
    /\ UNCHANGED <<discord, now, heap, sessions, discordSessions, used>>

WebhookDelivered == \E i \in Slots : WebhookDeliveredAt(i)

(* Variant: a failed webhook takes the wallet out of the session again. *)
WebhookFailedAt_Rollback(i) ==
    /\ requests[i].pc = "webhook"
    /\ LET r == requests[i]
       IN /\ requests' = [requests EXCEPT ![i] =
                 [pc |-> "respond", sessionId |-> r.sessionId, address |-> r.address,
                  session |-> r.session, userId |-> r.userId, walletInfo |-> r.walletInfo,
                  webhookError |-> TRUE] ]
          /\ heap' = [heap EXCEPT ![r.session].wallets =
                         SelectSeq(@, LAMBDA w : ~SameWallet(w, r.address))]
    /\ last' = [op |-> "webhook", status |-> 0, slot |-> i]
    /\ UNCHANGED <<discord, now, sessions, discordSessions, pendingRoleUpdates, used>>

(* axios.post rejected before any handler ran: the inner catch (webhookError) *)
WebhookFailedAt(i) ==
    /\ requests[i].pc = "webhook"
    /\ LET r == requests[i]
       IN requests' = [requests EXCEPT ![i] =
              [pc |-> "respond", sessionId |-> r.sessionId, address |-> r.address,
               session |-> r.session, userId |-> r.userId, walletInfo |-> r.walletInfo,
               webhookError |-> TRUE] ]
    /\ last' = [op |-> "webhook", status |-> 0, slot |-> i]
    /\ UNCHANGED <<discord, now, heap, sessions, discordSessions, pendingRoleUpdates, used>>

WebhookFailed == \E i \in Slots : WebhookFailedAt(i)

(* res.json({...session, walletInfo}) on either branch of the inner try *)
VerifyWalletRespondAt(i) ==
    /\ requests[i].pc = "respond"
    /\ Commit(heap, sessions, discordSessions, [requests EXCEPT ![i] = Idle])
    /\ last' = [op |-> "verifyWallet", status |-> 200,
                webhookError |-> requests[i].webhookError]
    /\ UNCHANGED <<discord, now, pendingRoleUpdates, used>>

VerifyWalletRespond == \E i \in Slots : VerifyWalletRespondAt(i)

(* Variant: the drain returns the entries and forgets to clear the map. *)
GetPendingRoleUpdates_NoClear ==
    /\ last' = [op |-> "pendingRoleUpdates", status |-> 200, updates |-> pendingRoleUpdates]
    /\ UNCHANGED <<discord, now, heap, sessions, discordSessions, pendingRoleUpdates, requests, used>>

(* Variant: the drain returns the entries and removes only the oldest one. *)
GetPendingRoleUpdates_ClearFirst ==
    /\ pendingRoleUpdates' = IF pendingRoleUpdates = <<>> THEN <<>> ELSE Tail(pendingRoleUpdates)
    /\ last' = [op |-> "pendingRoleUpdates", status |-> 200, updates |-> pendingRoleUpdates]
    /\ UNCHANGED <<discord, now, heap, sessions, discordSessions, requests, used>>

(* GET /pending-role-updates *)
GetPendingRoleUpdates ==
    /\ pendingRoleUpdates' = <<>>
    /\ last' = [op |-> "pendingRoleUpdates", status |-> 200, updates |-> pendingRoleUpdates]
    /\ UNCHANGED <<discord, now, heap, sessions, discordSessions, requests, used>>

(* Variant: a completion that removes the entry only when success is true. *)
RoleUpdateCompleteReq_OnlyOnSuccess(userId, success) ==
    /\ IF ~Truthy(userId)
       THEN /\ last' = [op |-> "roleUpdateComplete", status |-> 400]
            /\ UNCHANGED pendingRoleUpdates
       ELSE /\ pendingRoleUpdates' =
                   IF success THEN MapDelete(pendingRoleUpdates, userId) ELSE pendingRoleUpdates
            /\ last' = [op |-> "roleUpdateComplete", status |-> 200, userId |-> userId,
                        success |-> success]
    /\ UNCHANGED <<discord, now, heap, sessions, discordSessions, requests, used>>

(* POST /role-update/complete *)
RoleUpdateCompleteReq(userId, success) ==
    /\ IF ~Truthy(userId)
       THEN /\ last' = [op |-> "roleUpdateComplete", status |-> 400]
            /\ UNCHANGED pendingRoleUpdates
       ELSE /\ pendingRoleUpdates' = MapDelete(pendingRoleUpdates, userId)
            /\ last' = [op |-> "roleUpdateComplete", status |-> 200, userId |-> userId,
                        success |-> success]
    /\ UNCHANGED <<discord, now, heap, sessions, discordSessions, requests, used>>

RoleUpdateComplete ==
    \E userId \in DiscordIds \cup {UNDEFINED}, success \in BOOLEAN :
        RoleUpdateCompleteReq(userId, success)

(* ------------------------- Discord role update ------------------------- *)
VERIFIED_ROLE_ID == "verified"
ELITE_ROLE_ID == "elite"
RoleTotals == {0, 1, 9, 10}

(* Variant: only the verified role is removed before the roles are added. *)
rolesToRemove_VerifiedOnly == {VERIFIED_ROLE_ID}

rolesToRemove == {VERIFIED_ROLE_ID, ELITE_ROLE_ID}

(* updateUserRoles(userId, totalNFTs) is called; nothing else runs before its *)
(* first await. One call runs at a time.                                     *)
UpdateUserRolesCall(userId, totalNFTs) ==
    /\ roleJob = Idle
    /\ roleJob' = [pc |-> "fetch", userId |-> userId, totalNFTs |-> totalNFTs,
                   removeFailed |-> FALSE]
    /\ last' = [op |-> "updateUserRolesCall", status |-> 0]
    /\ UNCHANGED <<now, heap, sessions, discordSessions, pendingRoleUpdates, requests, used, otherJob,
                   memberRoles>>

UpdateUserRoles ==
    \E userId \in DiscordIds, totalNFTs \in RoleTotals : UpdateUserRolesCall(userId, totalNFTs)

(* The result of the function, which returns nothing: what it logged. *)
RolesResult(error) ==
    [op |-> "updateUserRoles", status |-> 0, userId |-> roleJob.userId,
     totalNFTs |-> roleJob.totalNFTs, error |-> error]

(* guild and member are fetched; the function then removes the two roles *)
FetchMember ==
    /\ roleJob.pc = "fetch"
    /\ roleJob' = [roleJob EXCEPT !.pc = "remove"]
    /\ last' = [op |-> "fetchMember", status |-> 0]
    /\ UNCHANGED <<now, heap, sessions, discordSessions, pendingRoleUpdates, requests, used, otherJob,
                   memberRoles>>

(* a fetch throws, or yields no guild or no member: the function ends *)
FetchFailed ==
    /\ roleJob.pc = "fetch"
    /\ roleJob' = Idle
    /\ last' = RolesResult(TRUE)
    /\ UNCHANGED <<now, heap, sessions, discordSessions, pendingRoleUpdates, requests, used, otherJob,
                   memberRoles>>

(* Promise.all over rolesToRemove: each remove succeeds, or fails and is only *)
(* logged by its own catch; `removed` are the ones that succeeded.           *)
RemoveRolesDone(removed) ==
    /\ roleJob.pc = "remove"
    /\ memberRoles' = [memberRoles EXCEPT ![roleJob.userId] = @ \ removed]
    /\ roleJob' = [roleJob EXCEPT !.pc = "verified",
                                  !.removeFailed = (removed # rolesToRemove)]
    /\ last' = [op |-> "removeRoles", status |-> 0]
    /\ UNCHANGED <<now, heap, sessions, discordSessions, pendingRoleUpdates, requests, used, otherJob>>

RemoveRoles == \E removed \in SUBSET rolesToRemove : RemoveRolesDone(removed)

(* if (totalNFTs >= 1) await member.roles.add(VERIFIED_ROLE_ID) *)
AddVerified ==
    /\ roleJob.pc = "verified"
    /\ memberRoles' = IF roleJob.totalNFTs >= 1
                      THEN [memberRoles EXCEPT ![roleJob.userId] = @ \cup {VERIFIED_ROLE_ID}]
                      ELSE memberRoles
    /\ roleJob' = [roleJob EXCEPT !.pc = "elite"]
    /\ last' = [op |-> "addVerified", status |-> 0]
    /\ UNCHANGED <<now, heap, sessions, discordSessions, pendingRoleUpdates, requests, used, otherJob>>

(* if (totalNFTs >= 10) await member.roles.add(ELITE_ROLE_ID); then the summary log *)
AddElite ==
    /\ roleJob.pc = "elite"
    /\ memberRoles' = IF roleJob.totalNFTs >= 10
                      THEN [memberRoles EXCEPT ![roleJob.userId] = @ \cup {ELITE_ROLE_ID}]
                      ELSE memberRoles
    /\ roleJob' = Idle
    /\ last' = RolesResult(roleJob.removeFailed)
    /\ UNCHANGED <<now, heap, sessions, discordSessions, pendingRoleUpdates, requests, used, otherJob>>

(* member.roles.add throws: the catch logs the error and the function ends *)
AddRoleFailed ==
    /\ \/ roleJob.pc = "verified" /\ roleJob.totalNFTs >= 1
       \/ roleJob.pc = "elite" /\ roleJob.totalNFTs >= 10
    /\ roleJob' = Idle
    /\ last' = RolesResult(TRUE)
    /\ UNCHANGED <<now, heap, sessions, discordSessions, pendingRoleUpdates, requests, used, otherJob,
                   memberRoles>>

(* ------------------------- racing verifications ------------------------ *)
VerifyWalletStartRacing ==
    \E i \in Handlers, sessionId \in SessionIds, address \in Addresses :
        VerifyWalletReq(i, sessionId, address)

ChainResolvedRacing == \E i \in Handlers, chain \in ChainResults : ChainResolvedAt(i, chain)

WebhookDeliveredRacing == \E i \in Handlers : WebhookDeliveredAt(i)

VerifyWalletRespondRacing == \E i \in Handlers : VerifyWalletRespondAt(i)

(* ------------------- verifications one after another ------------------- *)
VerifyWalletStartInTurn ==
    \E i \in Slots, sessionId \in SessionIds, address \in Addresses :
        VerifyWalletWithin(i, sessionId, address, MaxTurns)

(* ----------------------------- specifications -------------------------- *)
(* The relay variant's verification workflow with the relay queue: the role *)
(* updates reach POST /role-update through the verification's webhook.      *)
Next ==
    \/ RelayWebhook
    \/ VerifyWalletStart
    \/ ChainResolved
    \/ ChainRejected
    \/ WebhookDelivered
    \/ WebhookFailed
    \/ VerifyWalletRespond
    \/ GetPendingRoleUpdates
    \/ RoleUpdateComplete

Spec == Init /\ [][Next]_vars

(* The relay variant's session store: creation, linking, lazy creation, expiry. *)
NextStore ==
    \/ Tick
    \/ CreateSession
    \/ RelayWebhook
    \/ VerifyWalletStart
    \/ ChainRejected
    \/ cleanupSessions

SpecStore == Init /\ [][NextStore]_vars

(* The first variant's server: Discord-link sessions and signed wallet attachment. *)
NextSigned ==
    \/ Tick
    \/ DiscordWebhook
    \/ SignedWallet
    \/ cleanupSessions

SpecSigned == Init /\ [][NextSigned]_vars

(* The relay queue's router on its own. *)
NextQueue ==
    \/ Tick
    \/ RoleUpdate
    \/ GetPendingRoleUpdates
    \/ RoleUpdateComplete

SpecQueue == Init /\ [][NextQueue]_vars

(* ======================= properties of the relay queue ================= *)
EntriesFor(q, userId) == {i \in DOMAIN q : q[i].userId = userId}
Range(q) == {q[i] : i \in DOMAIN q}

(* C6: the relay queue never holds two entries with the same userId, and an  *)
(* accepted POST /role-update for a user leaves exactly one entry for that    *)
(* user, carrying the totalNFTs of this (the later) request, in the position  *)
(* the earlier entry had, with every other user's entry as it was.            *)
C6_OneEntryPerUser ==
    [][ /\ \A u \in DiscordIds : Cardinality(EntriesFor(pendingRoleUpdates', u)) <= 1
        /\ \A u \in DiscordIds, n \in RoleUpdateTotals :
              RoleUpdateReq(u, Def(n)) =>
                 /\ Cardinality(EntriesFor(pendingRoleUpdates', u)) = 1
                 /\ MapGet(pendingRoleUpdates', u).totalNFTs = n
                 /\ MapHas(pendingRoleUpdates, u) =>
                       /\ Len(pendingRoleUpdates') = Len(pendingRoleUpdates)
                       /\ EntriesFor(pendingRoleUpdates', u) = EntriesFor(pendingRoleUpdates, u)
                 /\ \A v \in DiscordIds \ {u} :
                       /\ MapHas(pendingRoleUpdates', v) = MapHas(pendingRoleUpdates, v)
                       /\ MapHas(pendingRoleUpdates, v) =>
                             MapGet(pendingRoleUpdates', v) = MapGet(pendingRoleUpdates, v)
      ]_vars

(* An entry written before a later entry of the queue carries a later         *)
(* timestamp: the user was enqueued twice with no drain in between.           *)
C6_Witness ==
    /\ last.op = "roleUpdate" /\ last.status = 200
    /\ Len(pendingRoleUpdates) = 2
    /\ pendingRoleUpdates[1].timestamp > pendingRoleUpdates[2].timestamp
    /\ pendingRoleUpdates[1].totalNFTs = 10

(* C7: a drain returns every entry pending at that moment and leaves the     *)
(* queue empty; a drain that directly follows a drain returns nothing.        *)
C7_DrainReturnsAllAndEmpties ==
    [][ last'.op = "pendingRoleUpdates" =>
           /\ last'.updates = pendingRoleUpdates
           /\ pendingRoleUpdates' = <<>>
           /\ last.op = "pendingRoleUpdates" => last'.updates = <<>>
      ]_vars

C7_Witness ==
    /\ last.op = "pendingRoleUpdates"
    /\ Len(last.updates) = 2
    /\ last.updates[1].userId # last.updates[2].userId
    /\ pendingRoleUpdates = <<>>

(* C8: an entry is pending after a step only if it was pending before and the *)
(* step was not a drain, or the step was an accepted enqueue for its userId;  *)
(* and what a drain returns was pending. So an entry handed out by a drain is *)
(* handed out again only after a new enqueue for that user.                   *)
C8_AtMostOnce ==
    [][ /\ \A e \in Range(pendingRoleUpdates') :
              \/ e \in Range(pendingRoleUpdates) /\ last'.op # "pendingRoleUpdates"
              \/ \E n \in RoleUpdateTotals : RoleUpdateReq(e.userId, Def(n))
        /\ last'.op = "pendingRoleUpdates" =>
              \A e \in Range(last'.updates) : e \in Range(pendingRoleUpdates)
      ]_vars

(* A drain that finds nothing although enqueues were accepted before it.      *)
C8_Witness ==
    /\ last.op = "pendingRoleUpdates"
    /\ last.updates = <<>>
    /\ used.enqueue = 2

(* C9: a completion for a userId leaves no entry for that userId, whether     *)
(* success is true or false, adds no entry, and leaves every other user's     *)
(* entry as it was.                                                           *)
C9_CompletionRemoves ==
    [][ \A u \in DiscordIds, success \in BOOLEAN :
           RoleUpdateCompleteReq(u, success) =>
              /\ ~MapHas(pendingRoleUpdates', u)
              /\ Len(pendingRoleUpdates') <= Len(pendingRoleUpdates)
              /\ \A v \in DiscordIds \ {u} :
                    /\ MapHas(pendingRoleUpdates', v) = MapHas(pendingRoleUpdates, v)
                    /\ MapHas(pendingRoleUpdates, v) =>
                          MapGet(pendingRoleUpdates', v) = MapGet(pendingRoleUpdates, v)
      ]_vars

(* A failed role update was completed for one user while another user's       *)
(* entry is still pending.                                                    *)
C9_Witness ==
    /\ last.op = "roleUpdateComplete" /\ last.status = 200
    /\ ~last.success
    /\ used.enqueue = 2
    /\ Len(pendingRoleUpdates) = 1
    /\ pendingRoleUpdates[1].userId # last.userId
    /\ pendingRoleUpdates[1].timestamp > 0

(* ======================= properties of the session store =============== *)
LiveSessions == {ref \in Refs : heap[ref].kind = "session"}

(* C1: in every session the wallets list holds at most one record per       *)
(* address, compared case-insensitively.                                     *)
C1_OneRecordPerAddress ==
    \A ref \in LiveSessions :
        \A i, j \in DOMAIN heap[ref].wallets :
            i # j => toLowerCase(heap[ref].wallets[i].address)
                        # toLowerCase(heap[ref].wallets[j].address)

(* C4: every session that POST /api/session created with a discordId (these *)
(* are the stored sessions that carry a lastActivity) is the very record the *)
(* Discord-id index returns for that discordId.                              *)
C4_SameInstanceInBothIndexes ==
    \A k \in SessionIds :
        LET ref == sessions[k]
        IN (ref # NoRef /\ heap[ref].lastActivity # Undef /\ Truthy(heap[ref].discordId))
              => discordSessions[heap[ref].discordId] = SessionEntry(ref)

(* C5: a run of the sweeper at time now leaves every session whose           *)
(* now - lastActivity exceeds 24 hours in neither index, and leaves every    *)
(* session whose now - lastActivity is at most 24 hours in the session-id    *)
(* index, unaltered.                                                         *)
C5_SweepRemovesExactlyExpired ==
    [][ cleanupSessions =>
           \A ref \in LiveSessions :
              heap[ref].lastActivity # Undef =>
                 IF now - heap[ref].lastActivity[1] > 24 * HOUR
                 THEN /\ \A k \in SessionIds : sessions'[k] # ref
                      /\ \A k \in DiscordKeys : discordSessions'[k] # SessionEntry(ref)
                 ELSE \A k \in SessionIds :
                         sessions[k] = ref => sessions'[k] = ref /\ heap'[ref] = heap[ref]
      ]_vars

(* The sweeper removed a session and kept one whose age is exactly 24 hours. *)
C5_Witness ==
    /\ last.op = "cleanup"
    /\ last.removed # {}
    /\ \E k \in SessionIds :
          /\ sessions[k] # NoRef
          /\ heap[sessions[k]].lastActivity = Def(now - 24 * HOUR)

(* =================== properties of the wallet verification ============= *)
ZeroHoldings(chain) == chain.nftBalance = 0 /\ chain.stakedTokens = <<>>

(* C2: when the chain reads give a balance of 0 and no staked token, the     *)
(* verification is refused with status 400 and the session's wallets list is *)
(* the same after as before.                                                  *)
C2_ZeroHoldingsRejected ==
    [][ \A i \in Slots, chain \in ChainResults :
           (ChainResolvedAt(i, chain) /\ ZeroHoldings(chain)) =>
              /\ heap'[requests[i].session].wallets = heap[requests[i].session].wallets
              /\ last'.status = 400
      ]_vars

C11_UnknownSessionIs404 ==
    [][ \A sessionId \in SessionIds, address \in Addresses, signer \in Addresses,
           timestamp \in {Undef, Def(now)} :
           (/\ SignedWalletReq(sessionId, address, signer, timestamp)
            /\ verifySignature(address, signer)
            /\ sessions[sessionId] = NoRef) =>
              /\ UNCHANGED <<heap, sessions, discordSessions, pendingRoleUpdates>>
              /\ last'.status = 404
      ]_vars

(* C12: a verification whose chain query fails answers 500 and leaves no     *)
(* trace: the relay queue is as it was and the session store holds no        *)
(* session that the failed request created (a session without any wallet    *)
(* that no other request in flight holds, since the stored sessions of this  *)
(* specification are created by the verification handler alone).             *)
C12_ChainFailureCommitsNothing ==
    [][ \A i \in Slots :
           ChainRejectedAt(i) =>
              /\ last'.status = 500
              /\ pendingRoleUpdates' = pendingRoleUpdates
              /\ (/\ heap[requests[i].session].wallets = <<>>
                  /\ \A j \in Slots \ {i} :
                        requests[j].pc = "idle" \/ requests[j].session # requests[i].session) =>
                    sessions'[requests[i].sessionId] = NoRef
      ]_vars

(* The first variant's role assignment: updateUserRoles against the guild. *)
NextRoles ==
    \/ UpdateUserRoles
    \/ FetchMember
    \/ FetchFailed
    \/ RemoveRoles
    \/ AddVerified
    \/ AddElite
    \/ AddRoleFailed

SpecRoles == Init /\ [][NextRoles]_vars

(* ==================== properties of the role update ==================== *)
(* C13: when updateUserRoles(userId, totalNFTs) has run to its end with no   *)
(* Discord call failing, the member holds the verified role exactly when     *)
(* totalNFTs >= 1 and the elite role exactly when totalNFTs >= 10.           *)
C13_RolePolicy ==
    (last.op = "updateUserRoles" /\ ~last.error) =>
        /\ (VERIFIED_ROLE_ID \in memberRoles[last.userId]) <=> (last.totalNFTs >= 1)
        /\ (ELITE_ROLE_ID \in memberRoles[last.userId]) <=> (last.totalNFTs >= 10)

(* A member with 9 NFTs ended with the verified role alone while another     *)
(* member holds both roles.                                                  *)
C13_Witness ==
    /\ last.op = "updateUserRoles" /\ ~last.error
    /\ last.totalNFTs = 9
    /\ memberRoles[last.userId] = {VERIFIED_ROLE_ID}
    /\ \E u \in DiscordIds : memberRoles[u] = {VERIFIED_ROLE_ID, ELITE_ROLE_ID}

(* ==================== properties of session creation =================== *)
(* C14: POST /api/session takes an id no stored session has and stores a new *)
(* record with that id, the request's discordId and username, no wallet, and *)
(* createdAt = lastActivity = now; the record is the session-id index's      *)
(* entry for the id and, when a discordId is given, the Discord-id index's   *)
(* entry for it (otherwise that index is as it was); every other session     *)
(* stays in the session-id index, unchanged.                                 *)
C14_CreateSessionIsFresh ==
    [][ \A discordId \in DiscordIds \cup {UNDEFINED}, username \in Usernames :
           CreateSessionReq(discordId, username) =>
              LET sessionId == last'.sessionId
                  ref == sessions'[sessionId]
              IN /\ sessions[sessionId] = NoRef
                 /\ ref # NoRef /\ heap[ref] = Free
                 /\ heap'[ref].id = sessionId
                 /\ heap'[ref].discordId = discordId
                 /\ heap'[ref].username = username
                 /\ heap'[ref].wallets = <<>>
                 /\ heap'[ref].createdAt = Def(now)
                 /\ heap'[ref].lastActivity = Def(now)
                 /\ IF Truthy(discordId)
                    THEN discordSessions'[discordId] = SessionEntry(ref)
                    ELSE discordSessions' = discordSessions
                 /\ \A k \in SessionIds \ {sessionId} :
                       /\ sessions'[k] = sessions[k]
                       /\ sessions[k] # NoRef => heap'[sessions[k]] = heap[sessions[k]]
      ]_vars

(* A second session was created, an hour after the first, which is still     *)
(* stored.                                                                   *)
C14_Witness ==
    /\ last.op = "createSession" /\ last.sessionId = "s2"
    /\ sessions["s1"] # NoRef /\ sessions["s2"] # NoRef
    /\ sessions["s1"] # sessions["s2"]
    /\ heap[sessions["s1"]].createdAt = Def(0)
    /\ heap[sessions["s2"]].createdAt = Def(HOUR)
    /\ heap[sessions["s2"]].lastActivity = Def(HOUR)
    /\ heap[sessions["s2"]].wallets = <<>>

(* C15: every wallet upsert of a verification, append or replace, leaves the *)
(* session's lastActivity at the current time.                               *)
C15_UpsertTouchesSession ==
    [][ \A i \in Slots, chain \in ChainResults :
           ChainResolvedAt(i, chain) =>
              heap'[requests[i].session].lastActivity = Def(now)
      ]_vars

(* ======================= liveness of the sweeper ======================= *)
(* The session store with time passing and the hourly timer firing for ever. *)
SpecSweep == SpecStore /\ WF_vars(Tick) /\ WF_vars(cleanupSessions)

InIndex(ref) ==
    \/ \E k \in SessionIds : sessions[k] = ref
    \/ \E k \in DiscordKeys : discordSessions[k] = SessionEntry(ref)

(* The clock of the model stops at MaxNow: a record is looked at when the    *)
(* 24 hours after its lastActivity (after its createdAt when it carries no   *)
(* lastActivity) end before that.                                            *)
WithinHorizon(ref) ==
    IF heap[ref].lastActivity = Undef
    THEN heap[ref].createdAt[1] + SESSION_TIMEOUT < MaxNow
    ELSE heap[ref].lastActivity[1] + SESSION_TIMEOUT < MaxNow

(* C16: every stored session (no handler of this specification refreshes a   *)
(* session's lastActivity) is eventually in neither index.                   *)
C16_EventuallyRemoved ==
    \A ref \in Refs :
        (heap[ref].kind = "session" /\ InIndex(ref) /\ WithinHorizon(ref)) ~> ~InIndex(ref)

(* ===================== concurrent verifications ======================== *)
(* Verification requests that overlap: a handler can start while another is  *)
(* suspended at its chain queries or at its webhook.                         *)
NextRace ==
    \/ RelayWebhook
    \/ VerifyWalletStartRacing
    \/ ChainResolvedRacing
    \/ WebhookDeliveredRacing
    \/ VerifyWalletRespondRacing

SpecRace == Init /\ [][NextRace]_vars

(* The records of a wallets list whose address is the given one, whatever the case *)
RecordsOf(wallets, address) ==
    {k \in DOMAIN wallets : toLowerCase(wallets[k].address) = toLowerCase(address)}

(* C17: when verifications of one address on one session overlap, each store *)
(* update leaves exactly one record for the address, and that record is the  *)
(* whole record of the request that made the update: the one whose update    *)
(* runs last decides every field.                                            *)
C17_LastWriterWins ==
    [][ \A i \in Handlers, chain \in ChainResults :
           ChainResolvedAt(i, chain) =>
              LET r == requests[i]
                  wallets == heap'[r.session].wallets
              IN /\ Cardinality(RecordsOf(wallets, r.address)) = 1
                 /\ \A k \in RecordsOf(wallets, r.address) :
                       /\ wallets[k] = WalletInfo(r.address, chain)
                       /\ wallets[k] = requests'[i].walletInfo
      ]_vars

(* Two requests for one address of one session are both past their store     *)
(* update and not yet answered; their records differ and the session holds   *)
(* the one written last.                                                     *)
C17_Witness ==
    /\ last.op = "walletRecorded"
    /\ requests[1].pc = "webhook" /\ requests[2].pc = "webhook"
    /\ requests[1].session = requests[2].session
    /\ requests[1].address # requests[2].address
    /\ toLowerCase(requests[1].address) = toLowerCase(requests[2].address)
    /\ requests[1].walletInfo.totalNFTs # requests[2].walletInfo.totalNFTs
    /\ heap[requests[1].session].wallets = <<requests[last.slot].walletInfo>>

NextOrder ==
    \/ RelayWebhook
    \/ VerifyWalletStartInTurn
    \/ ChainResolved
    \/ WebhookDelivered
    \/ WebhookFailed
    \/ VerifyWalletRespond

SpecOrder == Init /\ [][NextOrder]_vars

IndexesOf(wallets, address) ==
    {k \in DOMAIN wallets : toLowerCase(wallets[k].address) = toLowerCase(address)}

(* C19: at each store update of a verification, an address the session has  *)
(* no record for is appended at the end of the list, and an address it has a *)
(* record for gets its new record at that record's index; in both cases the  *)
(* records of the list before stay at their indexes, unchanged.              *)
C19_OrderOfFirstVerification ==
    [][ \A i \in Slots, chain \in ChainResults :
           ChainResolvedAt(i, chain) =>
              LET r == requests[i]
                  old == heap[r.session].wallets
                  new == heap'[r.session].wallets
                  at == IndexesOf(old, r.address)
              IN IF at = {}
                 THEN /\ Len(new) = Len(old) + 1
                      /\ new[Len(new)] = requests'[i].walletInfo
                      /\ \A k \in DOMAIN old : new[k] = old[k]
                 ELSE /\ Len(new) = Len(old)
                      /\ \A k \in DOMAIN old :
                            new[k] = IF k \in at THEN requests'[i].walletInfo ELSE old[k]
      ]_vars

(* The first of two recorded addresses was verified again, the third        *)
(* verification of the behaviour: its new record is first, the other second. *)
C19_Witness ==
    /\ last.op = "walletRecorded"
    /\ used.verify = 3
    /\ LET r == requests[last.slot]
           wallets == heap[r.session].wallets
       IN /\ Len(wallets) = 2
          /\ wallets[1] = r.walletInfo
          /\ wallets[1].totalNFTs = 5
          /\ wallets[1].address = <<"0", "x", "a", "b", "c">>
          /\ wallets[2].address = <<"0", "x", "d", "e", "f">>
          /\ wallets[2].totalNFTs = 2

(* ===================== create-session request bodies ==================== *)
(* The relay variant's session creation with bodies of any shape, and expiry. *)
NextCreate ==
    \/ Tick
    \/ CreateSessionAnyBody
    \/ cleanupSessions

SpecCreate == Init /\ [][NextCreate]_vars

(* C20: a POST /api/session whose body has no username is answered 400 and  *)
(* stores no session: heap, sessions and discordSessions stay as they were. *)
C20_MissingUsernameRejected ==
    [][ \A discordId \in DiscordIds \cup {UNDEFINED} :
           CreateSessionReq(discordId, UNDEFINED) =>
              /\ last'.status = 400
              /\ UNCHANGED <<heap, sessions, discordSessions>>
      ]_vars

(* ===================== Discord-link webhook bodies ====================== *)
(* C21: a Discord-link webhook whose body lacks sessionId, username or      *)
(* discordId is answered 400 and leaves sessions and discordSessions as     *)
(* they were. Stated for the relay variant's handler, the body lacking      *)
(* discordId.                                                               *)
C21_MissingFieldRejected ==
    [][ \A sessionId \in SessionIds, username \in Usernames :
           RelayWebhookReq(sessionId, username, UNDEFINED) =>
              /\ last'.status = 400
              /\ UNCHANGED <<sessions, discordSessions>>
      ]_vars

(* The same statement for the first variant's handler, any field lacking.   *)
C21_FirstVariantRejects ==
    [][ \A sessionId \in SessionIds \cup {UNDEFINED}, username \in Usernames \cup {UNDEFINED},
           discordId \in DiscordIds \cup {UNDEFINED} :
           (/\ DiscordWebhookReq(sessionId, username, discordId)
            /\ UNDEFINED \in {sessionId, username, discordId}) =>
              /\ last'.status = 400
              /\ UNCHANGED <<heap, sessions, discordSessions>>
      ]_vars

(* ===================== bodies of the queue's requests =================== *)
(* C22: POST /role-update without userId or without totalNFTs is answered   *)
(* 400 and leaves the queue as it was; with both, a total of 0 included, it *)
(* is answered 200 and the queue holds the request's entry for the user.    *)
(* POST /role-update/complete without userId is answered 400 and leaves the *)
(* queue as it was.                                                         *)
C22_QueueBodiesValidated ==
    [][ /\ \A userId \in DiscordIds \cup {UNDEFINED},
              totalNFTs \in {Undef} \cup {Def(n) : n \in RoleUpdateTotals} :
              RoleUpdateReq(userId, totalNFTs) =>
                 IF userId = UNDEFINED \/ totalNFTs = Undef
                 THEN last'.status = 400 /\ pendingRoleUpdates' = pendingRoleUpdates
                 ELSE /\ last'.status = 200
                      /\ \E k \in DOMAIN pendingRoleUpdates' :
                            pendingRoleUpdates'[k] =
                               [userId |-> userId, totalNFTs |-> totalNFTs[1], timestamp |-> now]
        /\ \A success \in BOOLEAN :
              RoleUpdateCompleteReq(UNDEFINED, success) =>
                 last'.status = 400 /\ pendingRoleUpdates' = pendingRoleUpdates
      ]_vars

(* A role update with a total of 0 is pending, and a request that came     *)
(* after it was answered 400.                                              *)
C22_Witness ==
    /\ last.op \in {"roleUpdate", "roleUpdateComplete"}
    /\ last.status = 400
    /\ \E k \in DOMAIN pendingRoleUpdates : pendingRoleUpdates[k].totalNFTs = 0

(* ================= completion reports and the session store ============= *)
(* Sessions created by POST /api/session, time passing, and the relay queue's *)
(* router with its completion reports.                                        *)
NextCompletion ==
    \/ Tick
    \/ CreateSession
    \/ RoleUpdate
    \/ GetPendingRoleUpdates
    \/ RoleUpdateComplete

SpecCompletion == Init /\ [][NextCompletion]_vars

(* C23: a completion report for a user sets lastActivity of every stored    *)
(* session of that user (discordId = userId) to the time of the report.     *)
C23_CompletionRefreshesSession ==
    [][ \A userId \in DiscordIds, success \in BOOLEAN :
           RoleUpdateCompleteReq(userId, success) =>
              \A k \in SessionIds :
                 (sessions[k] # NoRef /\ heap[sessions[k]].discordId = userId) =>
                    heap'[sessions[k]].lastActivity = Def(now)
      ]_vars

(* ============================ the dashboard ============================ *)
(* The wallet records of every session in the session-id index, in the       *)
(* order of the index.                                                       *)
RECURSIVE WalletsOf(_)
WalletsOf(ids) ==
    IF ids = <<>> THEN <<>>
    ELSE (IF sessions[Head(ids)] = NoRef THEN <<>> ELSE heap[sessions[Head(ids)]].wallets)
         \o WalletsOf(Tail(ids))

(* totalNFTs += parseInt(wallet.totalNFTs) || 0 *)
RECURSIVE SumNFTs(_)
SumNFTs(wallets) ==
    IF wallets = <<>> THEN 0 ELSE Head(wallets).totalNFTs + SumNFTs(Tail(wallets))

(* Variant: the buckets follow the chart's labels, 1-5, 6-10 and 11+, and a *)
(* record with no NFT falls into none.                                      *)
NftDistribution_Labels(wallets) ==
    [small |-> Len(SelectSeq(wallets, LAMBDA w : w.totalNFTs >= 1 /\ w.totalNFTs <= 5)),
     medium |-> Len(SelectSeq(wallets, LAMBDA w : w.totalNFTs > 5 /\ w.totalNFTs <= 10)),
     large |-> Len(SelectSeq(wallets, LAMBDA w : w.totalNFTs > 10))]

(* if (nftCount <= 5) small++; else if (nftCount <= 10) medium++; else large++ *)
NftDistribution(wallets) ==
    [small |-> Len(SelectSeq(wallets, LAMBDA w : w.totalNFTs <= 5)),
     medium |-> Len(SelectSeq(wallets, LAMBDA w : w.totalNFTs > 5 /\ w.totalNFTs <= 10)),
     large |-> Len(SelectSeq(wallets, LAMBDA w : w.totalNFTs > 10))]

(* for (let i = 23; i >= 0; i--): the number of entries of sessionHistory *)
HISTORY_HOURS == 24

(* sessions.values() filtered by session && session.createdAt; Date.now() is *)
(* never 0, so a createdAt that was assigned is truthy                       *)
validSessions == {k \in SessionIds : sessions[k] # NoRef /\ heap[sessions[k]].createdAt # Undef}

(* Variant: an entry counts the sessions created in the hour that ends at   *)
(* its timestamp.                                                           *)
sessionHistory_PerHour ==
    [n \in 1 .. HISTORY_HOURS |->
        LET timestamp == now - (HISTORY_HOURS - n) * HOUR
        IN [timestamp |-> timestamp,
            count |-> Cardinality({k \in validSessions :
                          /\ heap[sessions[k]].createdAt[1] <= timestamp
                          /\ heap[sessions[k]].createdAt[1] > timestamp - HOUR})]]

(* sessionHistory.push({timestamp: now - i * 3600000, count}) for i = 23 .. 0 *)
sessionHistory ==
    [n \in 1 .. HISTORY_HOURS |->
        LET timestamp == now - (HISTORY_HOURS - n) * HOUR
        IN [timestamp |-> timestamp,
            count |-> Cardinality({k \in validSessions :
                          heap[sessions[k]].createdAt[1] <= timestamp})]]

DashboardResponse ==
    LET wallets == WalletsOf(SessionIdOrder)
    IN [op |-> "dashboard", status |-> 200,
        activeSessions |-> Cardinality({k \in SessionIds : sessions[k] # NoRef}),
        discordUsers |-> Cardinality({k \in DiscordKeys : discordSessions[k] # NoEntry}),
        totalNFTs |-> SumNFTs(wallets),
        verifiedWallets |-> Len(wallets),
        nftDistribution |-> NftDistribution(wallets),
        sessionHistory |-> sessionHistory]

(* Variant: the handler takes its "Initializing empty sessions" branch on    *)
(* every request and the maps it installs replace the store.                 *)
GetDashboard_Reinitialising ==
    /\ Commit(heap, [k \in SessionIds |-> NoRef], [k \in DiscordKeys |-> NoEntry], requests)
    /\ last' = DashboardResponse
    /\ UNCHANGED <<discord, now, pendingRoleUpdates, used>>

(* GET /dashboard, the maps being those of app.set('sessions', sessions) *)
GetDashboard ==
    /\ last' = DashboardResponse
    /\ UNCHANGED <<discord, now, heap, sessions, discordSessions, pendingRoleUpdates,
                   requests, used>>

(* The relay variant's verification workflow and queue with the dashboard.   *)
NextDashboard ==
    \/ RelayWebhook
    \/ VerifyWalletStart
    \/ ChainResolved
    \/ ChainRejected
    \/ WebhookDelivered
    \/ WebhookFailed
    \/ VerifyWalletRespond
    \/ GetPendingRoleUpdates
    \/ RoleUpdateComplete
    \/ GetDashboard

SpecDashboard == Init /\ [][NextDashboard]_vars

(* C24: the dashboard request changes no session record and no wallets list *)
(* (heap), neither index (sessions, discordSessions) and not the relay      *)
(* queue (pendingRoleUpdates); what it reports is the state it found.       *)
C24_DashboardReadsOnly ==
    [][ (last'.op = "dashboard") =>
           /\ UNCHANGED <<heap, sessions, discordSessions, pendingRoleUpdates>>
           /\ last'.activeSessions = Cardinality({k \in SessionIds : sessions'[k] # NoRef})
           /\ last'.verifiedWallets = Len(WalletsOf(SessionIdOrder))
      ]_vars

(* The dashboard reported two verified wallets with four NFTs while a role  *)
(* update was pending: session, wallets and queue are all there after it.   *)
C24_Witness ==
    /\ last.op = "dashboard"
    /\ last.activeSessions >= 1
    /\ last.verifiedWallets = 2
    /\ last.totalNFTs = 4
    /\ pendingRoleUpdates # <<>>
    /\ \E k \in SessionIds : sessions[k] # NoRef /\ Len(heap[sessions[k]].wallets) = 2

(* ================ completion reports and later enqueues ================= *)
(* The bot's poll: GET /pending-role-updates, the answer kept by the bot as *)
(* the updates it has to apply and report.                                  *)
BotPoll ==
    /\ roleJob = Idle
    /\ pendingRoleUpdates' = <<>>
    /\ last' = [op |-> "pendingRoleUpdates", status |-> 200, updates |-> pendingRoleUpdates]
    /\ roleJob' = IF pendingRoleUpdates = <<>> THEN Idle
                  ELSE [pc |-> "drained", updates |-> pendingRoleUpdates]
    /\ UNCHANGED <<memberRoles, otherJob, now, heap, sessions, discordSessions, requests, used>>

(* The bot's report for the first update it holds: POST /role-update/complete *)
BotReportWith(success) ==
    /\ roleJob # Idle
    /\ roleJob.pc = "drained"
    /\ LET userId == Head(roleJob.updates).userId
       IN /\ pendingRoleUpdates' = MapDelete(pendingRoleUpdates, userId)
          /\ last' = [op |-> "roleUpdateComplete", status |-> 200, userId |-> userId,
                      success |-> success]
    /\ roleJob' = IF Len(roleJob.updates) = 1 THEN Idle
                  ELSE [pc |-> "drained", updates |-> Tail(roleJob.updates)]
    /\ UNCHANGED <<memberRoles, otherJob, now, heap, sessions, discordSessions, requests, used>>

BotReport == \E success \in BOOLEAN : BotReportWith(success)

(* The relay queue between the web API's enqueues and the polling bot. *)
NextBot ==
    \/ Tick
    \/ RoleUpdate
    \/ BotPoll
    \/ BotReport

SpecBot == Init /\ [][NextBot]_vars

(* C25: the bot's completion report for an update it drained does not       *)
(* remove an update of the same user that is pending at the report, which   *)
(* was enqueued after that drain (the drain emptied the queue).             *)
C25_CompletionKeepsLaterUpdate ==
    [][ \A success \in BOOLEAN :
           BotReportWith(success) =>
              LET userId == Head(roleJob.updates).userId
              IN MapHas(pendingRoleUpdates, userId) =>
                    /\ MapHas(pendingRoleUpdates', userId)
                    /\ MapGet(pendingRoleUpdates', userId) = MapGet(pendingRoleUpdates, userId)
      ]_vars

(* ============= verifications interleaved with the sweeper =============== *)
(* The relay variant's sessions, links and verifications with time passing  *)
(* and the sweeper running between the steps of a handler.                  *)
(* POST /api/session with a body that has no discordId *)
CreateSessionUnlinked ==
    \E username \in Usernames : CreateSessionReq(UNDEFINED, username)

VerifyWalletStartSwept ==
    \E i \in Slots, sessionId \in SessionIds, address \in Addresses :
        VerifyWalletWithin(i, sessionId, address, MaxSweptVerifications)

NextInterleaved ==
    \/ Tick
    \/ CreateSessionUnlinked
    \/ RelayWebhook
    \/ VerifyWalletStartSwept
    \/ ChainResolved
    \/ WebhookDelivered
    \/ WebhookFailed
    \/ VerifyWalletRespond
    \/ cleanupSessions

SpecInterleaved == Init /\ [][NextInterleaved]_vars

(* C26: when a verification answers 200, the record that sessions holds for *)
(* the request's sessionId at that moment exists and its wallets list has a *)
(* record for the verified address.                                         *)
C26_AnsweredWalletIsStored ==
    [][ \A i \in Slots :
           VerifyWalletRespondAt(i) =>
              LET r == requests[i]
              IN /\ sessions[r.sessionId] # NoRef
                 /\ RecordsOf(heap[sessions[r.sessionId]].wallets, r.address) # {}
      ]_vars

(* ================== the Discord-id index's records ===================== *)
(* C27: every session record that discordSessions holds is the record that  *)
(* sessions holds under the record's own id.                                *)
C27_DiscordIndexWithinSessionIndex ==
    \A k \in DiscordKeys :
       discordSessions[k].kind = "session" =>
          sessions[heap[discordSessions[k].ref].id] = discordSessions[k].ref

(* ================= sessions that share a discordId ===================== *)
(* C28: a sweep leaves the discordSessions entry of every discordId whose    *)
(* entry is a stored session that is not expired.                            *)
C28_SweepKeepsLiveIndexEntries ==
    [][ cleanupSessions =>
           \A k \in DiscordIds :
              (/\ discordSessions[k].kind = "session"
               /\ sessions[heap[discordSessions[k].ref].id] = discordSessions[k].ref
               /\ ~Expired(heap[discordSessions[k].ref], now)) =>
                  /\ discordSessions'[k] = discordSessions[k]
                  /\ sessions'[heap[discordSessions[k].ref].id] = discordSessions[k].ref
      ]_vars

(* ==================== the sessions' timestamps ========================= *)
(* C29: every record in sessions has a numeric lastActivity, not earlier    *)
(* than its createdAt.                                                      *)
C29_LastActivityDefined ==
    \A k \in SessionIds :
       sessions[k] # NoRef =>
          /\ heap[sessions[k]].lastActivity # Undef
          /\ heap[sessions[k]].createdAt[1] <= heap[sessions[k]].lastActivity[1]

(* ==================== the signed wallet endpoint ======================= *)
(* C30: a signed wallet request for a stored session is answered 400 and    *)
(* leaves the session as it was unless it carries a timestamp at most five  *)
(* minutes older than now and its signature recovers to its address, the    *)
(* case of the letters ignored.                                             *)
C30_OnlyFreshSignedRequestsAttach ==
    [][ \A sessionId \in SessionIds, address \in Addresses \cup {Undef},
           signer \in Addresses \cup {Undef},
           timestamp \in {Undef, Def(now), Def(now - FIVE_MINUTES - 1)} :
           (/\ SignedWalletReq(sessionId, address, signer, timestamp)
            /\ sessions[sessionId] # NoRef
            /\ ~(/\ timestamp # Undef
                 /\ now - timestamp[1] <= FIVE_MINUTES
                 /\ signer # Undef /\ address # Undef
                 /\ toLowerCase(signer) = toLowerCase(address))) =>
              /\ last'.status = 400
              /\ heap' = heap
      ]_vars

(* ============================= API keys ================================ *)
BOT_API_KEY == "bot-key"
FRONTEND_API_KEY == "frontend-key"
(* req.headers['x-api-key']: absent, one of the two keys, or another string *)
ApiKeys == {UNDEFINED, BOT_API_KEY, FRONTEND_API_KEY, "other-key"}

(* validateApiKey of the first variant: the status it answers, 0 for next() *)
validateApiKeyFirst(apiKey) ==
    IF ~Truthy(apiKey) \/ (apiKey # BOT_API_KEY /\ apiKey # FRONTEND_API_KEY) THEN 403 ELSE 0

(* validateApiKey of the relay variant: the status it answers, 0 for next() *)
validateApiKey(apiKey) ==
    IF ~Truthy(apiKey) THEN 401
    ELSE IF apiKey # BOT_API_KEY /\ apiKey # FRONTEND_API_KEY THEN 403
    ELSE 0

(* A middleware's answer in place of the handler *)
Refused(op, status) ==
    /\ last' = [op |-> op, status |-> status]
    /\ UNCHANGED <<discord, now, heap, sessions, discordSessions, pendingRoleUpdates,
                   requests, used>>

(* app.post('/api/discord/webhook', validateApiKey, handler), first variant *)
DiscordWebhookWithKey(apiKey, sessionId, username, discordId) ==
    IF validateApiKeyFirst(apiKey) # 0
    THEN Refused("discordWebhook", validateApiKeyFirst(apiKey))
    ELSE DiscordWebhookReq(sessionId, username, discordId)

DiscordWebhookKeyed ==
    \E apiKey \in ApiKeys, sessionId \in SessionIds \cup {UNDEFINED},
       username \in Usernames \cup {UNDEFINED}, discordId \in DiscordIds \cup {UNDEFINED} :
        DiscordWebhookWithKey(apiKey, sessionId, username, discordId)

(* app.post('/api/discord/:sessionId/wallets', handler), first variant: the  *)
(* route has no middleware and the handler reads no header                   *)
SignedWalletWithKey(apiKey, sessionId, address, signer, timestamp) ==
    SignedWalletReq(sessionId, address, signer, timestamp)

SignedWalletKeyed ==
    \E apiKey \in ApiKeys, sessionId \in SessionIds, address \in Addresses \cup {Undef},
       signer \in Addresses \cup {Undef},
       timestamp \in {Undef, Def(now), Def(now - FIVE_MINUTES - 1)} :
        SignedWalletWithKey(apiKey, sessionId, address, signer, timestamp)

(* The first variant's requests with their x-api-key header. *)
NextKeyed ==
    \/ DiscordWebhookKeyed
    \/ SignedWalletKeyed

SpecKeyed == Init /\ [][NextKeyed]_vars

(* app.use('/api', validateApiKey) before the relay variant's routes *)
CreateSessionWithKey(apiKey, discordId, username) ==
    IF validateApiKey(apiKey) # 0
    THEN Refused("createSession", validateApiKey(apiKey))
    ELSE CreateSessionReq(discordId, username)

RelayWebhookWithKey(apiKey, sessionId, username, discordId) ==
    IF validateApiKey(apiKey) # 0
    THEN Refused("relayWebhook", validateApiKey(apiKey))
    ELSE RelayWebhookReq(sessionId, username, discordId)

RoleUpdateWithKey(apiKey, userId, totalNFTs) ==
    IF validateApiKey(apiKey) # 0
    THEN Refused("roleUpdate", validateApiKey(apiKey))
    ELSE RoleUpdateReq(userId, totalNFTs)

CreateSessionKeyed ==
    \E apiKey \in ApiKeys, discordId \in DiscordIds \cup {UNDEFINED}, username \in Usernames :
        CreateSessionWithKey(apiKey, discordId, username)

RelayWebhookKeyed ==
    \E apiKey \in ApiKeys, sessionId \in SessionIds, username \in Usernames,
       discordId \in DiscordIds \cup {UNDEFINED} :
        RelayWebhookWithKey(apiKey, sessionId, username, discordId)

RoleUpdateKeyed ==
    \E apiKey \in ApiKeys, userId \in DiscordIds \cup {UNDEFINED},
       totalNFTs \in {Undef} \cup {Def(n) : n \in RoleUpdateTotals} :
        RoleUpdateWithKey(apiKey, userId, totalNFTs)

(* The relay variant's requests with their x-api-key header. *)
NextRelayKeyed ==
    \/ CreateSessionKeyed
    \/ RelayWebhookKeyed
    \/ RoleUpdateKeyed

SpecRelayKeyed == Init /\ [][NextRelayKeyed]_vars

(* C31: a request whose x-api-key header is neither the bot key nor the     *)
(* frontend key changes neither the session store nor the relay queue.      *)
(* Stated for the first variant's signed wallet request.                    *)
C31_KeyRequired ==
    [][ \A apiKey \in ApiKeys \ {BOT_API_KEY, FRONTEND_API_KEY},
           sessionId \in SessionIds, address \in Addresses \cup {Undef},
           signer \in Addresses \cup {Undef},
           timestamp \in {Undef, Def(now), Def(now - FIVE_MINUTES - 1)} :
           SignedWalletWithKey(apiKey, sessionId, address, signer, timestamp) =>
              UNCHANGED <<heap, sessions, discordSessions, pendingRoleUpdates>>
      ]_vars

(* The same for the relay variant's requests behind app.use('/api', ...),   *)
(* with 401 for a request without the header and 403 for another key.       *)
C31_RelayVariantRefuses ==
    [][ \A apiKey \in ApiKeys \ {BOT_API_KEY, FRONTEND_API_KEY} :
           (\/ \E discordId \in DiscordIds \cup {UNDEFINED}, username \in Usernames :
                  CreateSessionWithKey(apiKey, discordId, username)
            \/ \E sessionId \in SessionIds, username \in Usernames,
                  discordId \in DiscordIds \cup {UNDEFINED} :
                  RelayWebhookWithKey(apiKey, sessionId, username, discordId)
            \/ \E userId \in DiscordIds \cup {UNDEFINED},
                  totalNFTs \in {Undef} \cup {Def(n) : n \in RoleUpdateTotals} :
                  RoleUpdateWithKey(apiKey, userId, totalNFTs)) =>
              /\ UNCHANGED <<heap, sessions, discordSessions, pendingRoleUpdates>>
              /\ last'.status = IF apiKey = UNDEFINED THEN 401 ELSE 403
      ]_vars

(* =================== concurrent role updates =========================== *)
(* Both removes of the Promise.all succeed: no catch of the call runs *)
RemoveRolesAll == RemoveRolesDone(rolesToRemove)

(* The running call is suspended at its await and the other call, if there   *)
(* is one, is resumed; with no other call the caller may start a second one. *)
SwitchCall ==
    /\ roleJob # otherJob
    /\ roleJob' = otherJob
    /\ otherJob' = roleJob
    /\ last' = [op |-> "switchCall", status |-> 0]
    /\ UNCHANGED <<now, heap, sessions, discordSessions, pendingRoleUpdates, requests, used,
                   memberRoles>>

(* Two calls of updateUserRoles whose awaits interleave, every Discord call  *)
(* succeeding.                                                               *)
NextRolesRace ==
    \/ UpdateUserRoles
    \/ FetchMember
    \/ RemoveRolesAll
    \/ AddVerified
    \/ AddElite
    \/ SwitchCall

SpecRolesRace == Init /\ [][NextRolesRace]_vars

(* C32: once the calls of updateUserRoles have finished, each member's roles *)
(* are those the policy gives for some total: none, verified, or verified    *)
(* and elite; never elite without verified.                                  *)
C32_RolesOfOneTotal ==
    (roleJob = Idle /\ otherJob = Idle) =>
       \A u \in DiscordIds :
          ELITE_ROLE_ID \in memberRoles[u] => VERIFIED_ROLE_ID \in memberRoles[u]

(* ====================== the dashboard's statistics ===================== *)
(* Stores the relay variant can be in, for the statistics: each session id  *)
(* has no session or one (created by POST /api/session and linked) whose    *)
(* wallets list holds records of distinct addresses with totals on both     *)
(* sides of the buckets' limits.                                            *)
StatTotals == {0, 5, 6, 10, 11}

StatAddress(i) ==
    IF i = 1 THEN <<"0", "x", "a", "b", "c">>
    ELSE <<"0", "x", "d", "e", "f">> \o [j \in 1 .. (i - 2) |-> "0"]

StatChain(n) ==
    [nftBalance |-> n, stakedTokens |-> <<>>, totalPoints |-> 0, tier |-> 0, isMinter |-> FALSE]

StatWalletLists ==
    UNION { { [i \in 1 .. n |-> WalletInfo(StatAddress(i), StatChain(t[i]))] :
                 t \in [1 .. n -> StatTotals] } : n \in 0 .. MaxWallets }

StatRef(k) == CHOOSE i \in DOMAIN SessionIdOrder : SessionIdOrder[i] = k

StatSession(k, wallets) ==
    [NewSession(k, UNDEFINED, CHOOSE u \in Usernames : TRUE, FALSE, 0, Def(0))
        EXCEPT !.wallets = wallets]

InitStats ==
    /\ now = 0
    /\ pendingRoleUpdates = <<>>
    /\ requests = [i \in Handlers |-> Idle]
    /\ used = [verify |-> 0, link |-> 0, enqueue |-> 0]
    /\ last = [op |-> "init", status |-> 0]
    /\ memberRoles = [u \in DiscordIds |-> {}]
    /\ roleJob = Idle
    /\ otherJob = Idle
    /\ \E present \in SUBSET SessionIds, w \in [SessionIds -> StatWalletLists] :
          /\ \A k \in SessionIds \ present : w[k] = <<>>
          /\ sessions = [k \in SessionIds |-> IF k \in present THEN StatRef(k) ELSE NoRef]
          /\ heap = [ref \in Refs |->
                        IF \E k \in present : StatRef(k) = ref
                        THEN LET k == CHOOSE k \in present : StatRef(k) = ref
                             IN StatSession(k, w[k])
                        ELSE Free]
          /\ discordSessions =
                [k \in DiscordKeys |->
                    IF k \in present
                    THEN RelayEntry(CHOOSE u \in DiscordIds : TRUE, CHOOSE u \in Usernames : TRUE)
                    ELSE NoEntry]

SpecStats == InitStats /\ [][GetDashboard]_vars

(* The places of the wallet records in the store: session id and index. *)
WalletPlaces ==
    {<<k, i>> \in SessionIds \X (1 .. MaxWallets + 1) :
        sessions[k] # NoRef /\ i \in DOMAIN heap[sessions[k]].wallets}

TotalAt(place) == heap[sessions[place[1]]].wallets[place[2]].totalNFTs

RECURSIVE SumOver(_)
SumOver(places) ==
    IF places = {} THEN 0
    ELSE LET p == CHOOSE p \in places : TRUE IN TotalAt(p) + SumOver(places \ {p})

NextHistory ==
    \/ Tick
    \/ CreateSession
    \/ cleanupSessions
    \/ GetDashboard

SpecHistory == Init /\ [][NextHistory]_vars

(* C34: sessionHistory has 24 entries whose timestamps go up by one hour    *)
(* and end at now; the counts never go down and the last one is the number  *)
(* of stored sessions that have a createdAt.                                *)
C34_HistoryOfTheLastDay ==
    last.op = "dashboard" =>
       LET h == last.sessionHistory
       IN /\ Len(h) = 24
          /\ h[24].timestamp = now
          /\ \A n \in 1 .. 23 :
                /\ h[n + 1].timestamp = h[n].timestamp + 3600000
                /\ h[n].count <= h[n + 1].count
          /\ h[24].count =
                Cardinality({k \in SessionIds :
                               sessions[k] # NoRef /\ heap[sessions[k]].createdAt # Undef})

(* The dashboard answered an hour after one session was created and at the  *)
(* time another was: the history ends with the counts 1 and 2 and begins    *)
(* with 0.                                                                  *)
C34_Witness ==
    /\ last.op = "dashboard"
    /\ last.sessionHistory[1].count = 0
    /\ last.sessionHistory[23].count = 1
    /\ last.sessionHistory[24].count = 2
====
